---- MODULE Spec2Model ----
(***************************************************************************)
(* Model of the Student Productivity Analytics Platform (src/src):         *)
(* AnalyticsEngine (controllers.py) over the Task records of models.py.    *)
(*                                                                         *)
(* Numbers: Python floats are modelled as exact rationals [n, d] with      *)
(* d > 0 (weights, points and minutes are drawn from integers), rounded    *)
(* results as integers counted in tenths or hundredths.                    *)
(* Strings are sequences of one-character strings, so that upper() and     *)
(* strptime() are computed character by character.                         *)
(* Objects are references into heap; lists hold references.                *)
(***************************************************************************)
EXTENDS Integers, Sequences, FiniteSets, TLC

VARIABLES
    heap,           \* Task objects: reference -> fields (models.py Task)
    student_tasks,  \* student.tasks / day.tasks: list of references
    course_tasks,   \* course.tasks: list of references
    today,          \* the value datetime.now() returns during the call
    args,           \* arguments of a direct call of _merge_sort_tasks
    ret,            \* what the last call returned
    pc,             \* "start" before the call, "done" after it
    controller,     \* the fields of the SessionController of main_menu
    sessions,       \* StudySession objects: reference -> fields
    clock,          \* what time.time() returns, in seconds
    stopped         \* the sessions stop_session has returned so far

\* the state of the session timer
timer == <<controller, sessions, clock, stopped>>
vars == <<heap, student_tasks, course_tasks, today, args, ret, pc, timer>>

(***************************************************************************)
(* Bounds.                                                                 *)
(***************************************************************************)
MaxLen == 4         \* longest list handed to _merge_sort_tasks directly
NumItems == 3       \* distinct objects in those lists
MaxTasks == 2       \* longest student.tasks / course.tasks / day.tasks
TicksPerDay == 2    \* resolution of the time of day of a datetime
TickSeconds == 30   \* the step by which time.time() moves
MaxClock == 2       \* latest time.time(), in steps
MaxSessions == 2    \* calls of start_session
MaxMinutes == 2     \* largest total_work_time (either sign) the timer writes
MaxAdds == 3        \* tasks added through the menu
MantissaBits == 4   \* binary digits a float keeps (53 in CPython)

(***************************************************************************)
(* models.py                                                               *)
(***************************************************************************)
TODO == 1
IN_PROGRESS == 2
DONE == 3
Status == {TODO, IN_PROGRESS, DONE}
STUDY == 2

(***************************************************************************)
(* Rationals standing for Python floats.                                   *)
(***************************************************************************)
Rat(n, d) == [n |-> n, d |-> d]
RatGE(a, b) == a.n * b.d >= b.n * a.d
RatGT(a, b) == a.n * b.d > b.n * a.d
RatEQ(a, b) == a.n * b.d = b.n * a.d

(***************************************************************************)
(* AnalyticsEngine._merge, controllers.py:137-159.                         *)
(* score_func is a function from items to rationals.                       *)
(***************************************************************************)
\* tasks[i:] of Python, i counted from 0
SliceFrom(s, i) == SubSeq(s, i + 1, Len(s))
\* tasks[:i] of Python
SliceTo(s, i) == SubSeq(s, 1, i)

\* line 148 with > in place of >=
LeftFirstStrict(l, r, score_func) == RatGT(score_func[l], score_func[r])

\* line 148 with the operands exchanged
LeftFirstAscending(l, r, score_func) == RatGE(score_func[r], score_func[l])

\* line 148: score_func(left[i]) >= score_func(right[j])
LeftFirst(l, r, score_func) == RatGE(score_func[l], score_func[r])

RECURSIVE MergeLoop(_, _, _, _, _, _)
\* lines 146-153, i and j counted from 0 as in the source
MergeLoop(left, right, score_func, i, j, sorted_list) ==
    IF i < Len(left) /\ j < Len(right)
    THEN IF LeftFirst(left[i + 1], right[j + 1], score_func)
         THEN MergeLoop(left, right, score_func, i + 1, j,
                        Append(sorted_list, left[i + 1]))
         ELSE MergeLoop(left, right, score_func, i, j + 1,
                        Append(sorted_list, right[j + 1]))
    ELSE [i |-> i, j |-> j, sorted_list |-> sorted_list]

\* lines 156-157 with the second extend left out
ExtendRestLeftOnly(left, right, m) == m.sorted_list \o SliceFrom(left, m.i)

\* lines 156-157
ExtendRest(left, right, m) ==
    (m.sorted_list \o SliceFrom(left, m.i)) \o SliceFrom(right, m.j)

_merge(left, right, score_func) ==
    ExtendRest(left, right, MergeLoop(left, right, score_func, 0, 0, <<>>))

RECURSIVE _merge_sort_tasks(_, _)
\* controllers.py:116-135
_merge_sort_tasks(tasks, score_func) ==
    IF Len(tasks) <= 1
    THEN tasks
    ELSE LET mid == Len(tasks) \div 2
             left_half == SliceTo(tasks, mid)
             right_half == SliceFrom(tasks, mid)
             sorted_left == _merge_sort_tasks(left_half, score_func)
             sorted_right == _merge_sort_tasks(right_half, score_func)
         IN  _merge(sorted_left, sorted_right, score_func)

(***************************************************************************)
(* Python values held by the fields of a task that may be unset: None,     *)
(* str and datetime for the due date, None and float for the points.       *)
(***************************************************************************)
None == [type |-> "NoneType"]
Str(chars) == [type |-> "str", s |-> chars]
\* a number held by a field that may also hold None
Float(x) == [type |-> "float", x |-> x]
Datetime(y, m, d, tick) ==
    [type |-> "datetime", year |-> y, month |-> m, day |-> d, tick |-> tick]

DigitChars == <<"0", "1", "2", "3", "4", "5", "6", "7", "8", "9">>
LowerChars == <<"a", "b", "c", "d", "e", "f", "g", "h", "i", "j", "k", "l", "m",
                "n", "o", "p", "q", "r", "s", "t", "u", "v", "w", "x", "y", "z">>
UpperChars == <<"A", "B", "C", "D", "E", "F", "G", "H", "I", "J", "K", "L", "M",
                "N", "O", "P", "Q", "R", "S", "T", "U", "V", "W", "X", "Y", "Z">>
IsDigit(c) == \E i \in DOMAIN DigitChars : DigitChars[i] = c
DigitVal(c) == (CHOOSE i \in DOMAIN DigitChars : DigitChars[i] = c) - 1
IsDigitIn(c, lo, hi) == IsDigit(c) /\ DigitVal(c) >= lo /\ DigitVal(c) <= hi
Pad2(n) == <<DigitChars[((n \div 10) % 10) + 1], DigitChars[(n % 10) + 1]>>
Pad4(n) == Pad2(n \div 100) \o Pad2(n % 100)

\* str.upper(), character by character
upper(chars) ==
    [i \in DOMAIN chars |->
        IF \E k \in DOMAIN LowerChars : LowerChars[k] = chars[i]
        THEN UpperChars[CHOOSE k \in DOMAIN LowerChars : LowerChars[k] = chars[i]]
        ELSE chars[i]]

\* the calendar of datetime
is_leap(y) == y % 4 = 0 /\ (y % 100 # 0 \/ y % 400 = 0)
DAYS_IN_MONTH == <<31, 28, 31, 30, 31, 30, 31, 31, 30, 31, 30, 31>>
days_in_month(y, m) == IF m = 2 /\ is_leap(y) THEN 29 ELSE DAYS_IN_MONTH[m]
RECURSIVE days_before_month(_, _)
days_before_month(y, m) ==
    IF m = 1 THEN 0 ELSE days_before_month(y, m - 1) + days_in_month(y, m - 1)
days_before_year(y) ==
    (y - 1) * 365 + (y - 1) \div 4 - (y - 1) \div 100 + (y - 1) \div 400
toordinal(dt) ==
    days_before_year(dt.year) + days_before_month(dt.year, dt.month) + dt.day
\* the instant of a datetime, counted in ticks
Instant(dt) == toordinal(dt) * TicksPerDay + dt.tick
\* (a - b).days: timedelta normalises to days plus a non-negative rest
DeltaDays(a, b) == (Instant(a) - Instant(b)) \div TicksPerDay

\* str(datetime): "YYYY-MM-DD HH:MM:SS"
StrOfDatetime(dt) ==
    LET sec == (dt.tick * 86400) \div TicksPerDay
    IN  Pad4(dt.year) \o <<"-">> \o Pad2(dt.month) \o <<"-">> \o Pad2(dt.day)
        \o <<" ">> \o Pad2(sec \div 3600) \o <<":">>
        \o Pad2((sec % 3600) \div 60) \o <<":">> \o Pad2(sec % 60)
\* str(value)
str(v) ==
    IF v.type = "str" THEN v.s
    ELSE IF v.type = "datetime" THEN StrOfDatetime(v)
    ELSE <<"N", "o", "n", "e">>
\* not value
Falsy(v) == v.type = "NoneType" \/ (v.type = "str" /\ Len(v.s) = 0)

Raise(exc) == [exc |-> exc]
Return(value) == [exc |-> "none", value |-> value]

\* datetime.strptime(v, "%Y-%m-%d"): the format's regular expression
\*   (\d\d\d\d)-(1[0-2]|0[1-9]|[1-9])-(3[01]|[12]\d|0[1-9]|[1-9]| [1-9])
\* matched at the start of the string, nothing may remain, and the fields
\* must name a day of the calendar.
strptime(v) ==
    IF v.type # "str" THEN Raise("TypeError")
    ELSE
    LET s == v.s
        n == Len(s)
        yearOk == n >= 5 /\ (\A i \in 1 .. 4 : IsDigit(s[i])) /\ s[5] = "-"
        \* length of the month field: the alternative that a "-" follows
        mlen == IF n >= 8 /\ s[6] = "1" /\ IsDigitIn(s[7], 0, 2) /\ s[8] = "-"
                    THEN 2
                ELSE IF n >= 8 /\ s[6] = "0" /\ IsDigitIn(s[7], 1, 9) /\ s[8] = "-"
                    THEN 2
                ELSE IF n >= 7 /\ IsDigitIn(s[6], 1, 9) /\ s[7] = "-"
                    THEN 1
                ELSE 0
        p == 7 + mlen
        \* length of the day field: the first alternative that matches
        dlen == IF n >= p + 1 /\ s[p] = "3" /\ IsDigitIn(s[p + 1], 0, 1) THEN 2
                ELSE IF n >= p + 1 /\ IsDigitIn(s[p], 1, 2) /\ IsDigit(s[p + 1])
                    THEN 2
                ELSE IF n >= p + 1 /\ s[p] = "0" /\ IsDigitIn(s[p + 1], 1, 9)
                    THEN 2
                ELSE IF n >= p /\ IsDigitIn(s[p], 1, 9) THEN 1
                ELSE IF n >= p + 1 /\ s[p] = " " /\ IsDigitIn(s[p + 1], 1, 9)
                    THEN 2
                ELSE 0
        year == DigitVal(s[1]) * 1000 + DigitVal(s[2]) * 100
                    + DigitVal(s[3]) * 10 + DigitVal(s[4])
        month == IF mlen = 2 THEN DigitVal(s[6]) * 10 + DigitVal(s[7])
                 ELSE DigitVal(s[6])
        day == IF dlen = 1 THEN DigitVal(s[p])
               ELSE IF s[p] = " " THEN DigitVal(s[p + 1])
               ELSE DigitVal(s[p]) * 10 + DigitVal(s[p + 1])
    IN  IF ~yearOk \/ mlen = 0 \/ dlen = 0 THEN Raise("ValueError")
        ELSE IF p + dlen - 1 # n THEN Raise("ValueError")
        ELSE IF year < 1 \/ day > days_in_month(year, month)
            THEN Raise("ValueError")
        ELSE Return(Datetime(year, month, day, 0))

(***************************************************************************)
(* urgency_heuristic, controllers.py:182-204.  The result is              *)
(* [exc |-> "none", value |-> rational] or the exception that leaves it.   *)
(***************************************************************************)
TBD == <<"T", "B", "D">>

\* line 184
IsUnknownDate(due_date) == Falsy(due_date) \/ upper(str(due_date)) = TBD

\* lines 188-194 with an except clause that does not catch ValueError
ParseDueUncaught(due_date) ==
    LET parsed == IF due_date.type = "str"
                  THEN strptime(due_date)
                  ELSE Return(due_date)
    IN  parsed @@ [caught |-> FALSE]

\* lines 188-194: exc = "ValueError" stands for the return -1 of line 194
ParseDue(due_date) ==
    LET parsed == IF due_date.type = "str"
                  THEN strptime(due_date)
                  ELSE Return(due_date)
    IN  IF parsed.exc = "ValueError" THEN [exc |-> "none", caught |-> TRUE]
        ELSE parsed @@ [caught |-> FALSE]

\* line 201 without the clamp
DaysLeftTenthsUnclamped(delta) == 10 * delta

\* line 201: max(delta, 0.1), counted in tenths of a day
DaysLeftTenths(delta) == IF 10 * delta > 1 THEN 10 * delta ELSE 1

\* lines 185 and 194 returning 1
UnknownScorePositive == Rat(1, 1)

\* lines 185 and 194: return -1
UnknownScore == Rat(-1, 1)

urgency_heuristic(task, now) ==
    IF IsUnknownDate(task.due_date) THEN Return(UnknownScore)
    ELSE LET due == ParseDue(task.due_date)
         IN  IF due.exc # "none" THEN Raise(due.exc)
             ELSE IF due.caught THEN Return(UnknownScore)
             ELSE LET delta == DeltaDays(due.value, now)
                      days_left == DaysLeftTenths(delta)
                  IN  IF days_left = 0 THEN Raise("ZeroDivisionError")
                      ELSE IF days_left < 0
                          THEN Return(Rat(-(task.weighted_percent * 10),
                                          -days_left))
                      ELSE Return(Rat(task.weighted_percent * 10, days_left))

(***************************************************************************)
(* AnalyticsEngine.get_smart_recommendation, controllers.py:161-221.       *)
(***************************************************************************)
Task(task_id, due_date, weighted_percent, points_earned, task_status, total_work_time) ==
    [task_id |-> task_id, due_date |-> due_date,
     weighted_percent |-> weighted_percent, points_earned |-> points_earned,
     task_status |-> task_status, total_work_time |-> total_work_time]

Range(s) == {s[i] : i \in DOMAIN s}
\* the sequences over S of length up to n
SeqsUpTo(S, n) == UNION {[1 .. k -> S] : k \in 0 .. n}

\* round() and the .1f format: the nearest integer to n/d, halves to even
\* (exact for the values drawn here, none of which is a half)
RoundHalfEven(n, d) ==
    LET q == n \div d
        rest == n - q * d
    IN  IF 2 * rest < d THEN q
        ELSE IF 2 * rest > d THEN q + 1
        ELSE IF q % 2 = 0 THEN q ELSE q + 1

\* line 175 comparing with the wrong status
IsActiveWrongStatus(task) == task.task_status # IN_PROGRESS

\* line 175: t.task_status != 3
IsActive(task) == task.task_status # DONE

\* line 211 taking the last element
TopTaskLast(sorted_tasks) == sorted_tasks[Len(sorted_tasks)]

\* line 211: sorted_tasks[0]
TopTask(sorted_tasks) == sorted_tasks[1]

NoActiveMessage == "No active tasks found! You are free."

\* lines 214-219: strptime of the due date, any exception gives "?"
DaysRemaining(due_date, now) ==
    LET parsed == strptime(due_date)
    IN  IF parsed.exc = "none"
        THEN [shown |-> "days", days |-> DeltaDays(parsed.value, now)]
        ELSE [shown |-> "?"]

\* lines 210-221: the returned pair for the task at the head of the ranking
Recommendation(top_task, score, objs, now) ==
    Return([task |-> <<top_task>>,
            message |->
                [text |-> "Priority Score",
                 score |-> RoundHalfEven(10 * score.n, score.d),
                 weight |-> objs[top_task].weighted_percent,
                 days_remaining |-> DaysRemaining(objs[top_task].due_date, now)]])

\* lines 206-221, scores[r] being what urgency_heuristic gives for task r:
\* an exception of the heuristic escapes, otherwise the tasks are ranked
RankAndRecommend(active_tasks, scores, objs, now) ==
    IF \E r \in DOMAIN scores : scores[r].exc # "none"
    THEN {Raise(scores[r].exc) : r \in {q \in DOMAIN scores : scores[q].exc # "none"}}
    ELSE LET top_task == TopTask(_merge_sort_tasks(active_tasks,
                                    [r \in DOMAIN scores |-> scores[r].value]))
         IN  {Recommendation(top_task, scores[top_task].value, objs, now)}

\* lines 173-178: filter the tasks that are not DONE
ActiveTasks(tasks, objs) ==
    LET Active(r) == IsActive(objs[r]) IN SelectSeq(tasks, Active)

\* The set of outcomes of the call: one return value, or the exceptions that
\* a call of urgency_heuristic on an active task lets escape.
get_smart_recommendation(tasks, objs, now) ==
    IF ActiveTasks(tasks, objs) = <<>>
    THEN {Return([task |-> <<>>, message |-> [text |-> NoActiveMessage]])}
    ELSE RankAndRecommend(ActiveTasks(tasks, objs),
                          [r \in Range(ActiveTasks(tasks, objs)) |->
                                urgency_heuristic(objs[r], now)],
                          objs, now)

(***************************************************************************)
(* AnalyticsEngine.calculate_daily_score, controllers.py:75-98.            *)
(***************************************************************************)
RECURSIVE GCD(_, _)
GCD(a, b) == IF b = 0 THEN a ELSE GCD(b, a % b)
\* the same rational in lowest terms (n >= 0, d > 0)
Reduced(n, d) == LET g == GCD(n, d) IN Rat(n \div g, d \div g)
RatAdd(a, b) == Reduced(a.n * b.d + b.n * a.d, a.d * b.d)
RatMul(a, b) == Reduced(a.n * b.n, a.d * b.d)

\* line 95 paying the bonus from IN_PROGRESS on
HasBonusFromInProgress(task) == task.task_status >= IN_PROGRESS

\* line 95: task.task_status == 3
HasBonus(task) == task.task_status = DONE

RECURSIVE ScoreLoop(_, _, _, _)
\* lines 88-96, i counted from 0
ScoreLoop(tasks, objs, i, score) ==
    IF i >= Len(tasks) THEN score
    ELSE LET task == objs[tasks[i + 1]]
             hours_studied == Rat(task.total_work_time, 60)
             timed == RatAdd(score, RatMul(hours_studied, Rat(10, 1)))
         IN  ScoreLoop(tasks, objs, i + 1,
                       IF HasBonus(task) THEN RatAdd(timed, Rat(50, 1))
                       ELSE timed)

\* the score counted in tenths: round(score, 1)
calculate_daily_score(tasks, objs) ==
    LET score == ScoreLoop(tasks, objs, 0, Rat(0, 1))
    IN  RoundHalfEven(10 * score.n, score.d)

(***************************************************************************)
(* AnalyticsEngine.calculate_course_grade, controllers.py:100-112.         *)
(* The result carries the number of divisions evaluated on the way.        *)
(***************************************************************************)
RECURSIVE SumWeights(_, _)
SumWeights(tasks, objs) ==
    IF tasks = <<>> THEN 0
    ELSE objs[Head(tasks)].weighted_percent + SumWeights(Tail(tasks), objs)

\* line 103 counting the graded tasks only
TotalWeightGraded(tasks, objs) ==
    LET Graded(r) == objs[r].points_earned.x > 0
    IN  SumWeights(SelectSeq(tasks, Graded), objs)

\* line 103
TotalWeight(tasks, objs) == SumWeights(tasks, objs)

\* line 104 testing for an empty course instead
IsZeroWeightEmptyOnly(total_weight, tasks) == tasks = <<>>

\* line 104: total_weight == 0
IsZeroWeight(total_weight, tasks) == total_weight = 0

RECURSIVE WeightedSum(_, _)
\* lines 107-111: [exc, sum, divisions]; the comparison of line 110 raises
\* TypeError on the first task whose points are None
WeightedSum(tasks, objs) ==
    IF tasks = <<>> THEN [exc |-> "none", sum |-> Rat(0, 1), divisions |-> 0]
    ELSE LET t == objs[Head(tasks)]
             rest == WeightedSum(Tail(tasks), objs)
         IN  IF t.points_earned.type = "NoneType"
             THEN [exc |-> "TypeError", sum |-> Rat(0, 1), divisions |-> 0]
             ELSE IF t.points_earned.x > 0
             THEN [exc |-> rest.exc,
                   sum |-> RatAdd(RatMul(Rat(t.points_earned.x, 100),
                                         Rat(t.weighted_percent, 1)),
                                  rest.sum),
                   divisions |-> rest.divisions + 1]
             ELSE rest

\* the grade counted in hundredths: round(..., 2)
calculate_course_grade(tasks, objs) ==
    LET total_weight == TotalWeight(tasks, objs)
    IN  IF IsZeroWeight(total_weight, tasks)
        THEN [exc |-> "none", value |-> 0, divisions |-> 0]
        ELSE LET w == WeightedSum(tasks, objs)
             IN  IF w.exc # "none"
                 THEN [exc |-> w.exc, divisions |-> w.divisions]
                 ELSE IF total_weight = 0
                 THEN [exc |-> "ZeroDivisionError",
                       divisions |-> w.divisions + 1]
                 ELSE [exc |-> "none",
                       value |-> RoundHalfEven(100 * 100 * w.sum.n,
                                               w.sum.d * total_weight),
                       divisions |-> w.divisions + 1]

NoArgs == [tasks |-> <<>>, score_func |-> <<>>]
NoRet == [kind |-> "none"]

(***************************************************************************)
(* SessionController, controllers.py:5-69.  A field that holds None or an  *)
(* object is <<>> or <<reference>>; time.time() is counted in seconds.     *)
(***************************************************************************)
\* controllers.py:10-18
SessionController ==
    [active_session |-> <<>>, start_timestamp |-> <<>>, current_task |-> <<>>]

StudySession(session_id, start_time, duration_minutes, session_type, session_task) ==
    [session_id |-> session_id, start_time |-> start_time,
     duration_minutes |-> duration_minutes, session_type |-> session_type,
     session_task |-> session_task]

\* line 61 rounding to the nearest minute
intRounded(n, d) == (2 * n + d) \div (2 * d)

\* int(n / d): the quotient with its fraction dropped, towards zero
int(n, d) == IF n >= 0 THEN n \div d ELSE -((-n) \div d)

\* a controller on which nothing was started, at time 0
NoTimer ==
    /\ controller = SessionController
    /\ sessions = <<>>
    /\ clock = 0
    /\ stopped = {}

(***************************************************************************)
(* Inputs of the urgency heuristic and of the recommendation.              *)
(***************************************************************************)
Weights == {0, 40, 90}
DateStr(y, m, d) == Str(Pad4(y) \o <<"-">> \o Pad2(m) \o <<"-">> \o Pad2(d))
LastTick == TicksPerDay - 1
\* datetime.now(): 15 December 2025, at midnight or later in the day
Nows == {Datetime(2025, 12, 15, t) : t \in {0, LastTick}}

UnsetDates == {None, Str(<<>>)}
SentinelDates == {Str(<<"T", "B", "D">>), Str(<<"t", "b", "d">>),
                  Str(<<"T", "b", "d">>), Str(<<"t", "B", "d">>)}
UnparsableDates ==
    {Str(<<"s", "o", "o", "n">>),
     Str(<<"T", "B", "D", " ">>),
     Str(<<"2", "0", "2", "5", "-", "1", "3", "-", "0", "1">>),
     Str(<<"2", "0", "2", "5", "-", "0", "2", "-", "3", "0">>),
     Str(<<"2", "0", "2", "3", "-", "0", "2", "-", "2", "9">>),
     Str(<<"2", "0", "2", "5", "-", "1", "2", "-", "3", "2">>),
     Str(<<"2", "0", "2", "5", "/", "1", "2", "/", "1", "7">>),
     Str(<<"0", "0", "0", "0", "-", "0", "1", "-", "0", "1">>),
     Str(StrOfDatetime(Datetime(2025, 12, 17, 0)))}
ParsableDates ==
    {DateStr(2025, 12, 14), DateStr(2025, 12, 15), DateStr(2025, 12, 16),
     DateStr(2025, 12, 17), DateStr(2026, 1, 4), DateStr(2024, 2, 29),
     Str(<<"2", "0", "2", "5", "-", "1", "2", "-", "9">>),
     Str(<<"2", "0", "2", "6", "-", "1", "-", " ", "5">>)}
DatetimeDates ==
    {Datetime(2025, 12, 15, 0), Datetime(2025, 12, 16, 0),
     Datetime(2025, 12, 17, LastTick), Datetime(2025, 12, 14, LastTick)}
DueDates ==
    UnsetDates \cup SentinelDates \cup UnparsableDates \cup ParsableDates
        \cup DatetimeDates

\* One task and one instant; the heuristic is applied to the task.
InitUrgency ==
    /\ \E d \in DueDates, w \in Weights :
            heap = <<Task(1, d, w, Float(0), TODO, 0)>>
    /\ student_tasks = <<1>>
    /\ course_tasks = <<>>
    /\ today \in Nows
    /\ args = NoArgs
    /\ ret = NoRet
    /\ pc = "start"
    /\ NoTimer

UrgencyHeuristic ==
    /\ pc = "start"
    /\ ret' = [kind |-> "urgency"] @@ urgency_heuristic(heap[1], today)
    /\ pc' = "done"
    /\ UNCHANGED <<heap, student_tasks, course_tasks, today, args, timer>>

NextUrgency == UrgencyHeuristic
SpecUrgency == InitUrgency /\ [][NextUrgency]_vars

\* The tasks of a student, each with any status, weight and due date.
RecDueDates ==
    {None, Str(<<"t", "b", "d">>),
     Str(<<"2", "0", "2", "5", "-", "1", "3", "-", "0", "1">>),
     DateStr(2025, 12, 15), DateStr(2025, 12, 17),
     Datetime(2025, 12, 16, LastTick)}
RecTasks ==
    {[due_date |-> d, weighted_percent |-> w, task_status |-> st] :
        d \in RecDueDates, w \in Weights, st \in Status}

InitRecommend ==
    /\ \E n \in 0 .. MaxTasks : \E c \in [1 .. n -> RecTasks] :
            heap = [i \in 1 .. n |->
                        Task(i, c[i].due_date, c[i].weighted_percent, Float(0),
                             c[i].task_status, 0)]
    /\ student_tasks = [i \in DOMAIN heap |-> i]
    /\ course_tasks = <<>>
    /\ today \in Nows
    /\ args = NoArgs
    /\ ret = NoRet
    /\ pc = "start"
    /\ NoTimer

GetSmartRecommendation ==
    /\ pc = "start"
    /\ \E outcome \in get_smart_recommendation(student_tasks, heap, today) :
            ret' = [kind |-> "recommendation"] @@ outcome
    /\ pc' = "done"
    /\ UNCHANGED <<heap, student_tasks, course_tasks, today, args, timer>>

NextRecommend == GetSmartRecommendation
SpecRecommend == InitRecommend /\ [][NextRecommend]_vars

\* Up to NumItems tasks of few urgencies, so that several share the largest.
InitTies ==
    /\ \E n \in 0 .. NumItems :
        \E c \in [1 .. n ->
                    {[due_date |-> d, weighted_percent |-> w, task_status |-> st] :
                        d \in {None, Str(<<"t", "b", "d">>),
                               DateStr(2025, 12, 17), Datetime(2025, 12, 17, 0)},
                        w \in {40, 90}, st \in {TODO, DONE}}] :
            heap = [i \in 1 .. n |->
                        Task(i, c[i].due_date, c[i].weighted_percent, Float(0),
                             c[i].task_status, 0)]
    /\ student_tasks = [i \in DOMAIN heap |-> i]
    /\ course_tasks = <<>>
    /\ today \in Nows
    /\ args = NoArgs
    /\ ret = NoRet
    /\ pc = "start"
    /\ NoTimer

SpecTies == InitTies /\ [][GetSmartRecommendation]_vars

\* The tasks of a day view, each with any status, work time and due date.
WorkTimes == {0, 20, 45, 60}
ScoreDueDates == {None, DateStr(2025, 12, 15), DateStr(2024, 2, 29)}
ScoreTasks ==
    {[due_date |-> d, total_work_time |-> m, task_status |-> st] :
        d \in ScoreDueDates, m \in WorkTimes, st \in Status}

InitScore ==
    /\ \E n \in 0 .. MaxTasks : \E c \in [1 .. n -> ScoreTasks] :
            heap = [i \in 1 .. n |->
                        Task(i, c[i].due_date, 0, Float(0), c[i].task_status,
                             c[i].total_work_time)]
    /\ student_tasks = [i \in DOMAIN heap |-> i]
    /\ course_tasks = <<>>
    /\ today \in Nows
    /\ args = NoArgs
    /\ ret = NoRet
    /\ pc = "start"
    /\ NoTimer

\* main.py:470-471: the day view holds student.tasks
CalculateDailyScore ==
    /\ pc = "start"
    /\ ret' = [kind |-> "score", exc |-> "none",
               value |-> calculate_daily_score(student_tasks, heap)]
    /\ pc' = "done"
    /\ UNCHANGED <<heap, student_tasks, course_tasks, today, args, timer>>

NextScore == CalculateDailyScore
SpecScore == InitScore /\ [][NextScore]_vars

\* The tasks of a course, each with any weight and points.
GradeWeights == {0, 30, 50, 70}
Points == {0, 80, 100}
GradeTasks ==
    {[weighted_percent |-> w, points_earned |-> Float(p)] :
        w \in GradeWeights, p \in Points}

InitGrade ==
    /\ \E n \in 0 .. MaxTasks : \E c \in [1 .. n -> GradeTasks] :
            heap = [i \in 1 .. n |->
                        Task(i, None, c[i].weighted_percent,
                             c[i].points_earned, TODO, 0)]
    /\ student_tasks = <<>>
    /\ course_tasks = [i \in DOMAIN heap |-> i]
    /\ today \in Nows
    /\ args = NoArgs
    /\ ret = NoRet
    /\ pc = "start"
    /\ NoTimer

CalculateCourseGrade ==
    /\ pc = "start"
    /\ ret' = [kind |-> "grade"] @@ calculate_course_grade(course_tasks, heap)
    /\ pc' = "done"
    /\ UNCHANGED <<heap, student_tasks, course_tasks, today, args, timer>>

NextGrade == CalculateCourseGrade
SpecGrade == InitGrade /\ [][NextGrade]_vars

(***************************************************************************)
(* The ranker and the recommendation over list objects: mem[a] is the      *)
(* content of the list at address a, a slice or a comprehension makes a    *)
(* new list, append and extend write into the list they are called on.     *)
(***************************************************************************)
\* a new list object; its address is Len(mem) + 1
NewList(mem, items) == Append(mem, items)

RECURSIVE MergeLoopMem(_, _, _, _, _, _, _)
\* controllers.py:146-153, sorted_list.append writing into mem[sorted_list]
MergeLoopMem(mem, left, right, sorted_list, score_func, i, j) ==
    IF i < Len(mem[left]) /\ j < Len(mem[right])
    THEN IF LeftFirst(mem[left][i + 1], mem[right][j + 1], score_func)
         THEN MergeLoopMem([mem EXCEPT ![sorted_list] =
                                Append(@, mem[left][i + 1])],
                           left, right, sorted_list, score_func, i + 1, j)
         ELSE MergeLoopMem([mem EXCEPT ![sorted_list] =
                                Append(@, mem[right][j + 1])],
                           left, right, sorted_list, score_func, i, j + 1)
    ELSE [mem |-> mem, i |-> i, j |-> j]

\* controllers.py:156-159: the two extends, and the list returned
MergeExtendMem(m, left, right, sorted_list) ==
    [mem |-> [m.mem EXCEPT ![sorted_list] =
                (@ \o SliceFrom(m.mem[left], m.i))
                    \o SliceFrom(m.mem[right], m.j)],
     ref |-> sorted_list]

\* controllers.py:137-159, sorted_list = [] being a new list
_merge_mem(mem, left, right, score_func) ==
    MergeExtendMem(MergeLoopMem(NewList(mem, <<>>), left, right, Len(mem) + 1,
                                score_func, 0, 0),
                   left, right, Len(mem) + 1)

RECURSIVE _merge_sort_tasks_mem(_, _, _)
\* controllers.py:132 and 135, sl being what line 131 returned
SortRightAndMerge(sl, sr, score_func) ==
    _merge_mem(sr.mem, sl.ref, sr.ref, score_func)

\* controllers.py:131-135 on the two halves
SortHalves(sl, right_half, score_func) ==
    SortRightAndMerge(sl, _merge_sort_tasks_mem(sl.mem, right_half, score_func),
                      score_func)

\* controllers.py:116-135: the base case returns the list it was given, the
\* halves of lines 127-128 are new lists
_merge_sort_tasks_mem(mem, tasks, score_func) ==
    IF Len(mem[tasks]) <= 1
    THEN [mem |-> mem, ref |-> tasks]
    ELSE SortHalves(
            _merge_sort_tasks_mem(
                NewList(NewList(mem, SliceTo(mem[tasks], Len(mem[tasks]) \div 2)),
                        SliceFrom(mem[tasks], Len(mem[tasks]) \div 2)),
                Len(mem) + 1, score_func),
            Len(mem) + 2, score_func)

\* line 175 filtering student.tasks itself
ActiveListInPlace(mem, tasks, objs) ==
    [mem |-> [mem EXCEPT ![tasks] = ActiveTasks(@, objs)], ref |-> tasks]

\* line 175: the comprehension builds a new list
ActiveListMem(mem, tasks, objs) ==
    [mem |-> NewList(mem, ActiveTasks(mem[tasks], objs)), ref |-> Len(mem) + 1]

\* lines 182-204 for every active task
ScoresOf(active_tasks, objs, now) ==
    [r \in Range(active_tasks) |-> urgency_heuristic(objs[r], now)]

\* lines 206-221 on the list a: the outcomes, each with the lists it leaves
RankAndRecommendMem(a, scores, objs, now) ==
    IF \E r \in DOMAIN scores : scores[r].exc # "none"
    THEN {[outcome |-> Raise(scores[r].exc), mem |-> a.mem] :
            r \in {q \in DOMAIN scores : scores[q].exc # "none"}}
    ELSE {[outcome |-> Recommendation(TopTask(m.mem[m.ref]),
                                      scores[TopTask(m.mem[m.ref])].value,
                                      objs, now),
           mem |-> m.mem] :
            m \in {_merge_sort_tasks_mem(a.mem, a.ref,
                        [r \in DOMAIN scores |-> scores[r].value])}}

\* lines 173-221 on the list a of active tasks
RecommendMem(a, objs, now) ==
    IF a.mem[a.ref] = <<>>
    THEN {[outcome |-> Return([task |-> <<>>,
                               message |-> [text |-> NoActiveMessage]]),
           mem |-> a.mem]}
    ELSE RankAndRecommendMem(a, ScoresOf(a.mem[a.ref], objs, now), objs, now)

\* controllers.py:161-221, student.tasks being the list at address tasks
get_smart_recommendation_mem(mem, tasks, objs, now) ==
    RecommendMem(ActiveListMem(mem, tasks, objs), objs, now)

FrameTasks ==
    {[due_date |-> d, weighted_percent |-> w, task_status |-> st] :
        d \in {None, DateStr(2025, 12, 17)}, w \in {40, 90}, st \in {TODO, DONE}}

\* The tasks of a student, and a list of some of them for a direct call of
\* the ranker with the weight as the key.
InitFrame ==
    /\ \E n \in 0 .. MaxTasks : \E c \in [1 .. n -> FrameTasks] :
            heap = [i \in 1 .. n |->
                        Task(i, c[i].due_date, c[i].weighted_percent, Float(0),
                             c[i].task_status, 30)]
    /\ student_tasks = [i \in DOMAIN heap |-> i]
    /\ course_tasks = [i \in DOMAIN heap |-> i]
    /\ today \in Nows
    /\ args \in {[tasks |-> t,
                  score_func |-> [r \in DOMAIN heap |->
                                    Rat(heap[r].weighted_percent, 1)]] :
                    t \in SeqsUpTo(DOMAIN heap, MaxTasks)}
    /\ ret = NoRet
    /\ pc = "start"
    /\ NoTimer

\* _merge_sort_tasks(args.tasks, args.score_func), args.tasks at address 1
MergeSortTasksMem ==
    /\ pc = "start"
    /\ \E m \in {_merge_sort_tasks_mem(<<args.tasks>>, 1, args.score_func)} :
        /\ args' = [args EXCEPT !.tasks = m.mem[1]]
        /\ ret' = [kind |-> "sorted", value |-> m.mem[m.ref]]
    /\ pc' = "done"
    /\ UNCHANGED <<heap, student_tasks, course_tasks, today, timer>>

\* get_smart_recommendation(student), student.tasks at address 1
GetSmartRecommendationMem ==
    /\ pc = "start"
    /\ \E o \in get_smart_recommendation_mem(<<student_tasks>>, 1, heap, today) :
        /\ student_tasks' = o.mem[1]
        /\ ret' = [kind |-> "recommendation"] @@ o.outcome
    /\ pc' = "done"
    /\ UNCHANGED <<heap, course_tasks, today, args, timer>>

SpecFrame ==
    InitFrame /\ [][\/ CalculateDailyScore
                    \/ CalculateCourseGrade
                    \/ MergeSortTasksMem
                    \/ GetSmartRecommendationMem]_vars

(***************************************************************************)
(* Any calculator on tasks whose points may be unset.                      *)
(***************************************************************************)
\* every due date with every status, and every weight with every points
TotalTasks ==
    {[due_date |-> d, weighted_percent |-> 100, points_earned |-> None,
      task_status |-> st, total_work_time |-> 45] :
        d \in {None, Str(<<"T", "B", "D">>), Str(<<"s", "o", "o", "n">>),
               DateStr(2025, 12, 17), Datetime(2025, 12, 16, 0)},
        st \in Status}
    \cup
    {[due_date |-> None, weighted_percent |-> w, points_earned |-> p,
      task_status |-> TODO, total_work_time |-> 0] :
        w \in {0, 50, 100}, p \in {None, Float(0), Float(100)}}

InitTotal ==
    /\ \E n \in 0 .. MaxTasks : \E c \in [1 .. n -> TotalTasks] :
            heap = [i \in 1 .. n |->
                        Task(i, c[i].due_date, c[i].weighted_percent,
                             c[i].points_earned, c[i].task_status,
                             c[i].total_work_time)]
    /\ student_tasks = [i \in DOMAIN heap |-> i]
    /\ course_tasks = [i \in DOMAIN heap |-> i]
    /\ today \in Nows
    /\ args = NoArgs
    /\ ret = NoRet
    /\ pc = "start"
    /\ NoTimer

\* the heuristic applied to any task of the student
UrgencyOfTask ==
    /\ pc = "start"
    /\ \E r \in Range(student_tasks) :
            ret' = [kind |-> "urgency"] @@ urgency_heuristic(heap[r], today)
    /\ pc' = "done"
    /\ UNCHANGED <<heap, student_tasks, course_tasks, today, args, timer>>

SpecTotal ==
    InitTotal /\ [][\/ CalculateDailyScore
                    \/ CalculateCourseGrade
                    \/ UrgencyOfTask
                    \/ GetSmartRecommendation]_vars

(***************************************************************************)
(* The urgency as the float it is.  Line 204 divides two floats, and the   *)
(* quotient is rounded to the nearest number the format holds, halves to   *)
(* the even one.  The format is scaled down to MantissaBits binary digits; *)
(* no value here is near the ends of the exponent range.                   *)
(***************************************************************************)
RECURSIVE RoundToFloat(_, _)
\* the float nearest to n / d, for n >= 0 and d > 0
RoundToFloat(n, d) ==
    IF n = 0 THEN Rat(0, 1)
    ELSE IF n >= d * 2 ^ MantissaBits
    THEN RatMul(Rat(2, 1), RoundToFloat(n, 2 * d))
    ELSE IF n < d * 2 ^ (MantissaBits - 1)
    THEN RatMul(Rat(1, 2), RoundToFloat(2 * n, d))
    ELSE Rat(RoundHalfEven(n, d), 1)

\* line 201 with the distance to today in place of the days left
DaysLeftAbs(delta) ==
    IF delta = 0 THEN RoundToFloat(1, 10)
    ELSE IF delta < 0 THEN Rat(-delta, 1) ELSE Rat(delta, 1)

\* line 201: max(delta, 0.1), 0.1 being the float nearest to one tenth
DaysLeft(delta) == IF delta >= 1 THEN Rat(delta, 1) ELSE RoundToFloat(1, 10)

\* lines 182-204 with the division of line 204 rounded
urgency_float(task, now) ==
    IF \/ IsUnknownDate(task.due_date)
       \/ ParseDue(task.due_date).exc # "none"
       \/ ParseDue(task.due_date).caught
    THEN urgency_heuristic(task, now)
    \* weighted_percent / days_left, days_left being the rational n / d
    ELSE Return(RoundToFloat(
            task.weighted_percent
                * DaysLeft(DeltaDays(ParseDue(task.due_date).value, now)).d,
            DaysLeft(DeltaDays(ParseDue(task.due_date).value, now)).n))

\* Two tasks with real deadlines, and the heuristic applied to both.
InitWeigh ==
    /\ \E c \in [1 .. 2 ->
                    {[due_date |-> d, weighted_percent |-> w,
                      task_status |-> st, total_work_time |-> m] :
                        d \in {DateStr(2025, 12, 14), DateStr(2025, 12, 15),
                               DateStr(2025, 12, 16), DateStr(2025, 12, 18),
                               Datetime(2025, 12, 18, LastTick)},
                        w \in {0, 7, 12, 13, 14},
                        st \in {TODO, IN_PROGRESS}, m \in {0, 45}}] :
            heap = [i \in 1 .. 2 |->
                        Task(i, c[i].due_date, c[i].weighted_percent, Float(0),
                             c[i].task_status, c[i].total_work_time)]
    /\ student_tasks = <<1, 2>>
    /\ course_tasks = <<>>
    /\ today \in Nows
    /\ args = NoArgs
    /\ ret = NoRet
    /\ pc = "start"
    /\ NoTimer

UrgencyOfBoth ==
    /\ pc = "start"
    /\ ret' = [kind |-> "urgencies", exc |-> "none",
               value |-> [r \in DOMAIN heap |-> urgency_float(heap[r], today)]]
    /\ pc' = "done"
    /\ UNCHANGED <<heap, student_tasks, course_tasks, today, args, timer>>

SpecWeigh == InitWeigh /\ [][UrgencyOfBoth]_vars

(***************************************************************************)
(* main.py: validate_date and validate_percentage, lines 49-75.            *)
(* float(string) is computed from the characters: blanks around, a sign,   *)
(* inf / infinity / nan in any letter case, or digits with an optional     *)
(* point and exponent, single underscores allowed between digits.          *)
(***************************************************************************)
\* str.lower(), character by character
lower(chars) ==
    [i \in DOMAIN chars |->
        IF \E k \in DOMAIN UpperChars : UpperChars[k] = chars[i]
        THEN LowerChars[CHOOSE k \in DOMAIN UpperChars : UpperChars[k] = chars[i]]
        ELSE chars[i]]

RECURSIVE strip(_)
\* str.strip() for blanks
strip(chars) ==
    IF chars = <<>> THEN chars
    ELSE IF Head(chars) = " " THEN strip(Tail(chars))
    ELSE IF chars[Len(chars)] = " " THEN strip(SubSeq(chars, 1, Len(chars) - 1))
    ELSE chars

\* the first position of chars holding a character of set, or 0
IndexOf(chars, set) ==
    IF \E i \in DOMAIN chars : chars[i] \in set
    THEN CHOOSE i \in DOMAIN chars :
            chars[i] \in set /\ \A k \in 1 .. i - 1 : chars[k] \notin set
    ELSE 0

\* digit (["_"] digit)*
IsDigitPart(chars) ==
    /\ chars # <<>>
    /\ \A i \in DOMAIN chars : IsDigit(chars[i]) \/ chars[i] = "_"
    /\ IsDigit(chars[1]) /\ IsDigit(chars[Len(chars)])
    /\ \A i \in 1 .. Len(chars) - 1 : ~(chars[i] = "_" /\ chars[i + 1] = "_")

RECURSIVE DigitsValue(_)
\* the number a digit part writes, underscores skipped
DigitsValue(chars) ==
    IF chars = <<>> THEN 0
    ELSE IF chars[Len(chars)] = "_"
    THEN DigitsValue(SubSeq(chars, 1, Len(chars) - 1))
    ELSE 10 * DigitsValue(SubSeq(chars, 1, Len(chars) - 1))
            + DigitVal(chars[Len(chars)])

RECURSIVE Pow10(_)
Pow10(k) == IF k = 0 THEN 1 ELSE 10 * Pow10(k - 1)

\* what follows the sign of a string
Unsigned(chars) ==
    IF chars # <<>> /\ chars[1] \in {"+", "-"} THEN Tail(chars) ELSE chars

\* what stands before and after the first character of set in chars
Before(chars, set) ==
    IF IndexOf(chars, set) = 0 THEN chars
    ELSE SubSeq(chars, 1, IndexOf(chars, set) - 1)
After(chars, set) ==
    IF IndexOf(chars, set) = 0 THEN <<>>
    ELSE SubSeq(chars, IndexOf(chars, set) + 1, Len(chars))

\* digits[.digits] of digits[.digits][e[sign]digits]
Mantissa(body) == Before(body, {"e", "E"})

IsFloatBody(body) ==
    /\ Before(Mantissa(body), {"."}) = <<>>
            \/ IsDigitPart(Before(Mantissa(body), {"."}))
    /\ After(Mantissa(body), {"."}) = <<>>
            \/ IsDigitPart(After(Mantissa(body), {"."}))
    /\ Before(Mantissa(body), {"."}) # <<>> \/ After(Mantissa(body), {"."}) # <<>>
    /\ IndexOf(body, {"e", "E"}) # 0
            => IsDigitPart(Unsigned(After(body, {"e", "E"})))

\* the number a valid body writes, as a rational in lowest terms
ScaledBy(n, d, negative, e) ==
    IF negative THEN Reduced(n, d * Pow10(e)) ELSE Reduced(n * Pow10(e), d)
FloatBodyValue(body) ==
    ScaledBy(DigitsValue(Before(Mantissa(body), {"."}))
                    * Pow10(Len(SelectSeq(After(Mantissa(body), {"."}), IsDigit)))
                + DigitsValue(After(Mantissa(body), {"."})),
             Pow10(Len(SelectSeq(After(Mantissa(body), {"."}), IsDigit))),
             IndexOf(body, {"e", "E"}) # 0 /\ Head(After(body, {"e", "E"})) = "-",
             IF IndexOf(body, {"e", "E"}) = 0 THEN 0
             ELSE DigitsValue(Unsigned(After(body, {"e", "E"}))))

\* float() of the text after its sign
FloatOfBody(body, negative) ==
    IF lower(body) \in {<<"i", "n", "f">>,
                        <<"i", "n", "f", "i", "n", "i", "t", "y">>}
    THEN Return([kind |-> "inf", negative |-> negative])
    ELSE IF lower(body) = <<"n", "a", "n">> THEN Return([kind |-> "nan"])
    ELSE IF ~IsFloatBody(body) THEN Raise("ValueError")
    ELSE Return([kind |-> "finite", negative |-> negative,
                 q |-> FloatBodyValue(body)])

\* float(value_string)
float(chars) ==
    FloatOfBody(Unsigned(strip(chars)),
                strip(chars) # <<>> /\ Head(strip(chars)) = "-")

\* line 70 without the upper end
InRangeNoUpper(v) == v.kind = "finite" /\ (~v.negative \/ v.q.n = 0)

\* line 70: 0 <= value <= 100, false for nan and the infinities
InRange(v) ==
    /\ v.kind = "finite"
    /\ ~v.negative \/ v.q.n = 0
    /\ v.q.n <= 100 * v.q.d

\* main.py:63-75: (is_valid, float_value, error_message)
validate_percentage(value_string) ==
    IF float(value_string).exc = "ValueError"
    THEN [is_valid |-> FALSE, value |-> Rat(0, 1),
          error |-> "Please enter a valid number"]
    ELSE IF InRange(float(value_string).value)
    THEN [is_valid |-> TRUE, value |-> float(value_string).value.q,
          error |-> "None"]
    ELSE [is_valid |-> FALSE, value |-> Rat(0, 1),
          error |-> "Percentage must be between 0 and 100"]

\* main.py:49-61: is_valid
validate_date(date_string) ==
    \/ date_string = <<>>
    \/ upper(date_string) = TBD
    \/ strptime(Str(date_string)).exc = "none"

(***************************************************************************)
(* The session timer: start_session and stop_session called in any order   *)
(* on one controller while the clock moves.                                *)
(***************************************************************************)
InitSession ==
    /\ heap = <<Task(1, None, 40, Float(0), TODO, 0),
                Task(2, None, 40, Float(0), IN_PROGRESS, 1)>>
    /\ student_tasks = <<1, 2>>
    /\ course_tasks = <<>>
    /\ today \in {Datetime(2025, 12, 15, 0)}
    /\ args = NoArgs
    /\ ret = NoRet
    /\ pc = "start"
    /\ NoTimer

\* controllers.py:20-43
start_session(session_type, task) ==
    /\ Len(sessions) < MaxSessions
    /\ controller' = [active_session |-> <<Len(sessions) + 1>>,
                      start_timestamp |-> <<clock>>,
                      current_task |-> task]
    /\ sessions' = Append(sessions,
                          StudySession(0, clock, 0, session_type, task))
    /\ ret' = [kind |-> "start_session", value |-> <<Len(sessions) + 1>>]
    /\ UNCHANGED <<heap, student_tasks, course_tasks, today, args, pc, clock,
                   stopped>>

\* the type is the default of line 20, the task is None or any task
StartSession ==
    \E task \in {<<>>} \cup {<<r>> : r \in DOMAIN heap} :
        start_session(STUDY, task)

\* lines 54-69 without the update of the task
StopActiveSessionUncredited(duration_minutes) ==
    /\ sessions' = [sessions EXCEPT
                        ![controller.active_session[1]].duration_minutes =
                            duration_minutes]
    /\ heap' = heap
    /\ ret' = [kind |-> "stop_session", value |-> controller.active_session]
    /\ stopped' = stopped \cup {controller.active_session[1]}
    /\ UNCHANGED controller

\* controllers.py:54-69, a session being active
StopActiveSession(duration_minutes) ==
    /\ sessions' = [sessions EXCEPT
                        ![controller.active_session[1]].duration_minutes =
                            duration_minutes]
    /\ IF controller.current_task # <<>>
       THEN /\ heap[controller.current_task[1]].total_work_time
                    + duration_minutes \in -MaxMinutes .. MaxMinutes
            /\ heap' = [heap EXCEPT
                            ![controller.current_task[1]].total_work_time =
                                @ + duration_minutes]
       ELSE heap' = heap
    /\ ret' = [kind |-> "stop_session", value |-> controller.active_session]
    /\ stopped' = stopped \cup {controller.active_session[1]}
    /\ UNCHANGED controller

\* lines 50-51 with the time of the call kept on the controller
StopIdleStamped ==
    /\ ret' = [kind |-> "stop_session", value |-> <<>>]
    /\ controller' = [controller EXCEPT !.start_timestamp = <<clock>>]
    /\ UNCHANGED <<heap, sessions, stopped>>

\* lines 50-51: no session is active, return None
StopIdle ==
    /\ ret' = [kind |-> "stop_session", value |-> <<>>]
    /\ UNCHANGED <<heap, controller, sessions, stopped>>

\* controllers.py:45-69
StopSession ==
    /\ IF controller.active_session = <<>>
       THEN StopIdle
       ELSE StopActiveSession(int(clock - controller.start_timestamp[1], 60))
    /\ UNCHANGED <<student_tasks, course_tasks, today, args, pc, clock>>

\* time.time() moves on
ClockForward ==
    /\ \E k \in 1 .. 2 :
        /\ clock + k * TickSeconds <= MaxClock * TickSeconds
        /\ clock' = clock + k * TickSeconds
    /\ UNCHANGED <<heap, student_tasks, course_tasks, today, args, ret, pc,
                   controller, sessions, stopped>>

\* the wall clock is set back
ClockBack ==
    /\ clock >= TickSeconds
    /\ clock' = clock - TickSeconds
    /\ UNCHANGED <<heap, student_tasks, course_tasks, today, args, ret, pc,
                   controller, sessions, stopped>>

SpecSession ==
    InitSession
        /\ [][StartSession \/ StopSession \/ ClockForward \/ ClockBack]_vars

(***************************************************************************)
(* main_menu, main.py:175-: the handlers of 'Add New Task' (228-294),      *)
(* 'Edit Task Details' (342-412) and 'Delete Task' (415-463).  The texts  *)
(* typed are the parameters of a handler.  A Task of this model has no     *)
(* title, so the title only decides whether a task is added.               *)
(* db.save_data() writes the file from the objects and changes none of     *)
(* them.  Numbers typed by the user are kept as rationals.                 *)
(***************************************************************************)
\* the texts typed where a percentage is asked for
PercentInputs ==
    {<<>>, <<"0">>, <<"-", "0">>, <<".", "0">>, <<"9", "9", ".", "9">>,
     <<"9", "_", "9", ".", "9">>, <<"1", "0", "0">>, <<"1", "e", "2">>,
     <<"1", "0", "0", ".">>, <<"1", "E", "+", "2">>,
     <<"1", "0", "0", ".", "5">>, <<"1", "0", "1">>, <<"-", "1">>,
     <<"1", "e", "3">>, <<"a", "b", "c">>, <<"n", "a", "n">>,
     <<"i", "n", "f">>, <<"-", "i", "n", "f">>,
     <<"I", "n", "f", "i", "n", "i", "t", "y">>, <<"9", "_", "_", "9">>,
     <<".">>, <<"5", "0", "%">>, <<"1", "e">>, <<"9", " ", "9">>}

\* validate_percentage of every such text, computed once
ValidatedInputs == [text \in PercentInputs |-> validate_percentage(text)]
Validated(text) ==
    IF text \in PercentInputs THEN ValidatedInputs[text]
    ELSE validate_percentage(text)

RECURSIVE StrOfInt(_)
\* str(n) for n >= 0
StrOfInt(n) ==
    IF n < 10 THEN <<DigitChars[n + 1]>>
    ELSE StrOfInt(n \div 10) \o <<DigitChars[(n % 10) + 1]>>

\* lines 363-367 and 437-443: the position in tasks of the first task whose
\* id reads t_id, or 0
FindTask(tasks, objs, t_id) ==
    IF \E i \in DOMAIN tasks : StrOfInt(objs[tasks[i]].task_id) = t_id
    THEN CHOOSE i \in DOMAIN tasks :
            /\ StrOfInt(objs[tasks[i]].task_id) = t_id
            /\ \A k \in 1 .. i - 1 : StrOfInt(objs[tasks[k]].task_id) # t_id
    ELSE 0

\* main.py:228-294, the four texts being what input().strip() gave
add_new_task(title, date_assigned_input, due_date_input, task_percent_input) ==
    /\ IF \/ title = <<>>
          \/ date_assigned_input # <<>> /\ ~validate_date(date_assigned_input)
          \/ due_date_input # <<>> /\ ~validate_date(due_date_input)
          \/ ~Validated(task_percent_input).is_valid
       THEN UNCHANGED <<heap, student_tasks>>
       ELSE /\ heap' = Append(heap,
                    Task(Len(student_tasks) + 1,
                         Str(IF due_date_input # <<>> THEN due_date_input
                             ELSE TBD),
                         Validated(task_percent_input).value,
                         Float(Rat(0, 1)), TODO, 0))
            /\ student_tasks' = Append(student_tasks, Len(heap) + 1)
    /\ UNCHANGED <<course_tasks, today, args, ret, pc, timer>>

\* lines 394-399 and 403-408: the new value of the field
EditedPercent(old, text) ==
    IF text # <<>> /\ Validated(text).is_valid
    THEN Validated(text).value
    ELSE old

\* main.py:342-412
edit_task(t_id, new_due_date, new_percent, new_points) ==
    /\ IF student_tasks = <<>> \/ t_id = <<"0">>
            \/ FindTask(student_tasks, heap, t_id) = 0
       THEN heap' = heap
       ELSE heap' = [heap EXCEPT
                ![student_tasks[FindTask(student_tasks, heap, t_id)]] =
                    [@ EXCEPT
                        !.due_date = IF new_due_date # <<>>
                                        /\ validate_date(new_due_date)
                                     THEN Str(new_due_date) ELSE @,
                        !.weighted_percent = EditedPercent(@, new_percent),
                        !.points_earned =
                            Float(EditedPercent(@.x, new_points))]]
    /\ UNCHANGED <<student_tasks, course_tasks, today, args, ret, pc, timer>>

\* main.py:415-463, confirmed being what confirm_action returned
delete_task(t_id, confirmed) ==
    /\ IF student_tasks = <<>> \/ t_id = <<"0">>
            \/ FindTask(student_tasks, heap, t_id) = 0 \/ ~confirmed
       THEN student_tasks' = student_tasks
       ELSE student_tasks' =
                SubSeq(student_tasks, 1,
                       FindTask(student_tasks, heap, t_id) - 1)
                \o SubSeq(student_tasks,
                          FindTask(student_tasks, heap, t_id) + 1,
                          Len(student_tasks))
    /\ UNCHANGED <<heap, course_tasks, today, args, ret, pc, timer>>

\* A student without tasks at the menu.
InitMenu ==
    /\ heap = <<>>
    /\ student_tasks = <<>>
    /\ course_tasks = <<>>
    /\ today \in {Datetime(2025, 12, 15, 0)}
    /\ args = NoArgs
    /\ ret = NoRet
    /\ pc = "start"
    /\ NoTimer

TaskIdInputs == {<<"0">>, <<"1">>, <<"2">>, <<"3">>, <<"x">>}
DateInputs == {<<>>, <<"s", "o", "o", "n">>, <<"t", "b", "d">>,
               <<"2", "0", "2", "5", "-", "1", "2", "-", "1", "7">>}

\* 'Add New Task' and 'Delete Task' in any order
AddNewTask ==
    /\ Len(heap) < MaxAdds
    /\ \E title \in {<<>>, <<"a">>},
          task_percent_input \in {<<"0">>, <<"1", "e", "2">>, <<"x">>} :
            add_new_task(title, <<>>, <<>>, task_percent_input)

DeleteTask ==
    /\ pc = "start"
    /\ \E t_id \in TaskIdInputs, confirmed \in BOOLEAN :
            delete_task(t_id, confirmed)

SpecIds == InitMenu /\ [][AddNewTask \/ DeleteTask]_vars

\* the texts typed in one visit of 'Add New Task': each field varied in turn
AddInputs ==
    {[title |-> t, date_assigned_input |-> d, due_date_input |-> <<>>,
      task_percent_input |-> <<"1", "0", "0">>] :
            t \in {<<>>, <<"a">>}, d \in DateInputs}
    \cup {[title |-> <<"a">>, date_assigned_input |-> <<>>, due_date_input |-> e,
           task_percent_input |-> w] :
                e \in DateInputs \ {<<"t", "b", "d">>},
                w \in {<<"0">>, <<"a", "b", "c">>}}
    \cup {[title |-> <<"a">>, date_assigned_input |-> <<>>,
           due_date_input |-> <<>>, task_percent_input |-> w] :
                w \in PercentInputs}
\* the texts typed in one visit of 'Edit Task Details'
EditInputs ==
    {[t_id |-> i, new_due_date |-> d, new_percent |-> <<>>,
      new_points |-> <<>>] :
            i \in TaskIdInputs, d \in DateInputs \ {<<"t", "b", "d">>}}
    \cup {[t_id |-> i, new_due_date |-> <<>>, new_percent |-> w,
           new_points |-> <<>>] :
                i \in {<<"1">>, <<"2">>},
                w \in {<<"0">>, <<"9", "9", ".", "9">>, <<"1", "e", "2">>,
                       <<"1", "0", "0", ".", "5">>, <<"1", "0", "1">>, <<"-", "1">>,
                       <<"a", "b", "c">>, <<"n", "a", "n">>, <<"i", "n", "f">>,
                       <<"5", "0", "%">>, <<"1", "e", "3">>}}
    \cup {[t_id |-> i, new_due_date |-> <<>>, new_percent |-> <<>>,
           new_points |-> w] :
                i \in {<<"1">>, <<"2">>},
                w \in {<<"1", "0", "0">>, <<"-", "0">>, <<"1", "0", "0", ".", "5">>,
                       <<"1", "0", "1">>, <<"-", "1">>, <<"a", "b", "c">>,
                       <<"n", "a", "n">>, <<"-", "i", "n", "f">>,
                       <<"9", "_", "_", "9">>}}
    \cup {[t_id |-> <<"1">>, new_due_date |-> <<>>, new_percent |-> w,
           new_points |-> v] :
                w \in {<<"9", "9", ".", "9">>, <<"1", "0", "1">>},
                v \in {<<"1", "0", "0">>, <<"a", "b", "c">>}}

\* 'Add New Task' and 'Edit Task Details' in any order, with any text
AddNewTaskAnyText ==
    /\ Len(student_tasks) < MaxTasks
    /\ \E i \in AddInputs :
            add_new_task(i.title, i.date_assigned_input, i.due_date_input,
                         i.task_percent_input)

EditTask ==
    /\ pc = "start"
    /\ \E i \in EditInputs :
            edit_task(i.t_id, i.new_due_date, i.new_percent, i.new_points)

SpecEntry == InitMenu /\ [][AddNewTaskAnyText \/ EditTask]_vars

(***************************************************************************)
(* Direct calls of the ranker: any list over Items, any key function.      *)
(***************************************************************************)
Items == 1 .. NumItems
\* 1/2 and 2/4 are the same score in two representations
Scores == {Rat(-1, 1), Rat(0, 1), Rat(1, 2), Rat(2, 4), Rat(3, 1)}

InitSort ==
    /\ heap = <<>>
    /\ student_tasks = <<>>
    /\ course_tasks = <<>>
    /\ today = <<>>
    /\ args \in {[tasks |-> t, score_func |-> f] :
                    t \in SeqsUpTo(Items, MaxLen), f \in [Items -> Scores]}
    /\ ret = NoRet
    /\ pc = "start"
    /\ NoTimer

MergeSortTasks ==
    /\ pc = "start"
    /\ ret' = [kind |-> "sorted",
               value |-> _merge_sort_tasks(args.tasks, args.score_func)]
    /\ pc' = "done"
    /\ UNCHANGED <<heap, student_tasks, course_tasks, today, args, timer>>

NextSort == MergeSortTasks
SpecSort == InitSort /\ [][NextSort]_vars

\* a second call, on the list the first call returned
MergeSortAgain ==
    /\ pc = "done"
    /\ args' = [args EXCEPT !.tasks = ret.value]
    /\ ret' = [kind |-> "sorted",
               value |-> _merge_sort_tasks(ret.value, args.score_func)]
    /\ pc' = "again"
    /\ UNCHANGED <<heap, student_tasks, course_tasks, today, timer>>

SpecRank == InitSort /\ [][MergeSortTasks \/ MergeSortAgain]_vars

(***************************************************************************)
(* Properties of the ranker.                                               *)
(***************************************************************************)
Occurrences(s, x) == Cardinality({i \in DOMAIN s : s[i] = x})
IsPermutationOf(out, in) ==
    /\ Len(out) = Len(in)
    /\ \A x \in Items : Occurrences(out, x) = Occurrences(in, x)
IsDescending(s, score_func) ==
    \A i \in 1 .. Len(s) - 1 : RatGE(score_func[s[i]], score_func[s[i + 1]])
\* the items of s whose score equals k, in the order of s
WithScore(s, score_func, k) ==
    LET Test(x) == RatEQ(score_func[x], k) IN SelectSeq(s, Test)

\* C1: _merge_sort_tasks returns a permutation of its input (same elements,
\* same multiplicities) whose keys are in non-increasing order.
C1_PermutationDescending ==
    pc = "done" =>
        /\ IsPermutationOf(ret.value, args.tasks)
        /\ IsDescending(ret.value, args.score_func)

\* a call that had to reorder a list of at least three items with a repeated
\* element
C1_Witness ==
    /\ pc = "done"
    /\ Len(args.tasks) >= 3
    /\ ret.value # args.tasks
    /\ \E i, j \in DOMAIN args.tasks : i < j /\ args.tasks[i] = args.tasks[j]

\* C2: the sort is stable: items with equal keys keep their input order, i.e.
\* for every score the items carrying it appear in the output in the order
\* they had in the input.
C2_Stable ==
    pc = "done" =>
        \A k \in Scores :
            WithScore(ret.value, args.score_func, k)
                = WithScore(args.tasks, args.score_func, k)

\* two different items with equal keys (in different representations), the
\* second of them in the right half, and a reordering call
C2_Witness ==
    /\ pc = "done"
    /\ ret.value # args.tasks
    /\ \E i, j \in DOMAIN args.tasks :
        /\ i < j
        /\ i <= Len(args.tasks) \div 2
        /\ j > Len(args.tasks) \div 2
        /\ args.tasks[i] # args.tasks[j]
        /\ args.score_func[args.tasks[i]] # args.score_func[args.tasks[j]]
        /\ RatEQ(args.score_func[args.tasks[i]], args.score_func[args.tasks[j]])

(***************************************************************************)
(* Properties of the urgency heuristic and of the recommendation.          *)
(* The kinds of due date are stated here by what the strings look like,    *)
(* not by running the parser.                                              *)
(***************************************************************************)
IsUnset(d) == d.type = "NoneType" \/ (d.type = "str" /\ d.s = <<>>)
IsSentinel(d) ==
    /\ d.type = "str"
    /\ Len(d.s) = 3
    /\ d.s[1] \in {"T", "t"} /\ d.s[2] \in {"B", "b"} /\ d.s[3] \in {"D", "d"}
\* the ways a month or a day of the month may be written
MonthForms(m) == {Pad2(m)} \cup (IF m < 10 THEN {<<DigitChars[m + 1]>>} ELSE {})
DayForms(d) ==
    {Pad2(d)} \cup (IF d < 10 THEN {<<DigitChars[d + 1]>>, <<" ", DigitChars[d + 1]>>}
                   ELSE {})
Writings(y, m, d) ==
    {Pad4(y) \o <<"-">> \o ms \o <<"-">> \o ds :
        ms \in MonthForms(m), ds \in DayForms(d)}
\* the calendar days a string writes as YYYY-MM-DD (none or one)
DaysWritten(chars) ==
    IF Len(chars) < 4 \/ \E i \in 1 .. 4 : ~IsDigit(chars[i]) THEN {}
    ELSE LET y == DigitVal(chars[1]) * 1000 + DigitVal(chars[2]) * 100
                    + DigitVal(chars[3]) * 10 + DigitVal(chars[4])
         IN  {dt \in {Datetime(y, m, d, 0) : m \in 1 .. 12, d \in 1 .. 31} :
                /\ y >= 1
                /\ dt.day <= days_in_month(y, dt.month)
                /\ chars \in Writings(y, dt.month, dt.day)}
IsDateString(d) == d.type = "str" /\ DaysWritten(d.s) # {}
IsUnparsable(d) ==
    d.type = "str" /\ ~IsUnset(d) /\ ~IsSentinel(d) /\ DaysWritten(d.s) = {}
\* a real deadline: a date string or a datetime value
IsDated(d) == d.type = "datetime" \/ IsDateString(d)
DueInstant(d) ==
    IF d.type = "datetime" THEN d ELSE CHOOSE dt \in DaysWritten(d.s) : TRUE
\* integer quotient rounded towards zero
TruncDiv(a, b) == IF a >= 0 THEN a \div b ELSE -((-a) \div b)

\* the due dates drawn for the tasks that are real deadlines
DatedDueDates == {d \in DueDates \cup RecDueDates : IsDated(d)}

Urgency(r) == urgency_heuristic(heap[r], today).value
ActiveRefs == {r \in Range(student_tasks) : heap[r].task_status # DONE}

\* C3: when the student has a task that is not DONE, the recommendation is a
\* task of student.tasks, not DONE, whose urgency is at least that of every
\* other task that is not DONE.
C3_TopIsMostUrgentActive ==
    (pc = "done" /\ ActiveRefs # {}) =>
        /\ ret.exc = "none"
        /\ Len(ret.value.task) = 1
        /\ ret.value.task[1] \in ActiveRefs
        /\ \A r \in ActiveRefs : RatGE(Urgency(ret.value.task[1]), Urgency(r))

\* two active tasks, the second strictly more urgent, and it is returned
C3_Witness ==
    /\ pc = "done"
    /\ ActiveRefs = {1, 2}
    /\ RatGT(Urgency(2), Urgency(1))
    /\ Urgency(1).n > 0
    /\ ret.value.task = <<2>>

\* C4: the call returns (None, "No active tasks found! You are free.") if and
\* only if no task of the student has a status other than DONE, and it
\* returns a value (no exception) either way.
C4_NoActiveIffAllDone ==
    pc = "done" =>
        /\ ret.exc = "none"
        /\ (ret.value.task = <<>> /\ ret.value.message.text = NoActiveMessage)
                <=> (\A r \in Range(student_tasks) : heap[r].task_status = DONE)
        /\ ret.value.task = <<>> <=> ret.value.message.text = NoActiveMessage

\* a student whose two tasks are both DONE gets the no-task result
C4_Witness ==
    /\ pc = "done"
    /\ Len(student_tasks) = 2
    /\ \A r \in Range(student_tasks) : heap[r].task_status = DONE
    /\ ret.value.task = <<>>
    /\ ret.value.message.text = NoActiveMessage

\* C5: when some task that is not DONE has a real deadline, the recommended
\* task is never one whose due date is unset, the sentinel or unparsable.
C5_DatedOutrankUndated ==
    (pc = "done" /\ \E r \in ActiveRefs : heap[r].due_date \in DatedDueDates) =>
        /\ ret.exc = "none"
        /\ Len(ret.value.task) = 1
        /\ heap[ret.value.task[1]].due_date \in DatedDueDates

\* the scenario of the specification: weight 90 without a date first, weight
\* 40 due in exactly two days second; the second is returned with score 20.0
C5_Witness ==
    /\ pc = "done"
    /\ today.tick = 0
    /\ Len(student_tasks) = 2
    /\ heap[1].task_status # DONE /\ heap[2].task_status # DONE
    /\ heap[1].weighted_percent = 90 /\ IsSentinel(heap[1].due_date)
    /\ heap[2].weighted_percent = 40 /\ heap[2].due_date = DateStr(2025, 12, 17)
    /\ ret.value.task = <<2>>
    /\ ret.value.message.score = 200

\* C6: the heuristic returns exactly -1, and raises nothing, for a due date
\* that is unset or empty, the sentinel in any letter case, or a string that
\* is not a date written as YYYY-MM-DD.
C6_UnknownDateScoresMinusOne ==
    (pc = "done" /\ (IsUnset(heap[1].due_date) \/ IsSentinel(heap[1].due_date)
                        \/ IsUnparsable(heap[1].due_date))) =>
        /\ ret.exc = "none"
        /\ ret.value = Rat(-1, 1)

\* a string of the right shape that names no day of the calendar
C6_Witness ==
    /\ pc = "done"
    /\ heap[1].due_date = Str(<<"2", "0", "2", "3", "-", "0", "2", "-", "2", "9">>)
    /\ heap[1].weighted_percent = 90
    /\ ret.exc = "none"
    /\ ret.value = Rat(-1, 1)

\* C7: for a real deadline the urgency is weighted_percent / max(days_left,
\* 0.1), days_left being the difference due_date - now in whole days (the
\* fraction dropped); the divisor is positive; a due date of today or of an
\* earlier day gives weighted_percent * 10.
C7_UrgencyFormula ==
    (pc = "done" /\ IsDated(heap[1].due_date)) =>
        LET due == DueInstant(heap[1].due_date)
            days_left == TruncDiv(Instant(due) - Instant(today), TicksPerDay)
            divisor == IF 10 * days_left > 1 THEN 10 * days_left ELSE 1
        IN  /\ ret.exc = "none"
            /\ ret.value.d > 0
            /\ RatEQ(ret.value, Rat(10 * heap[1].weighted_percent, divisor))
            /\ toordinal(due) <= toordinal(today) =>
                    RatEQ(ret.value, Rat(10 * heap[1].weighted_percent, 1))

\* due today while the day has already begun: the difference is a negative
\* fraction of a day and the urgency is ten times the weight
C7_Witness ==
    /\ pc = "done"
    /\ today.tick > 0
    /\ heap[1].due_date = DateStr(2025, 12, 15)
    /\ heap[1].weighted_percent = 40
    /\ ret.exc = "none"
    /\ RatEQ(ret.value, Rat(400, 1))

(***************************************************************************)
(* Properties of the daily score and of the course grade.                  *)
(***************************************************************************)
RECURSIVE SumOver(_, _)
\* the sum of f over a finite set
SumOver(S, f) ==
    IF S = {} THEN 0
    ELSE LET x == CHOOSE x \in S : TRUE IN f[x] + SumOver(S \ {x}, f)
\* v is the integer nearest to n/d (d > 0)
IsNearest(v, n, d) == 2 * v * d - 2 * n <= d /\ 2 * n - 2 * v * d <= d

\* C8: the daily score is the sum over all tasks of total_work_time / 60 * 10
\* plus 50 per DONE task and nothing for the other statuses, rounded to one
\* decimal; every task counts whatever its dates; one DONE task of 60
\* minutes scores 60.0 and no task scores 0.0.
C8_DailyScore ==
    pc = "done" =>
        LET refs == Range(student_tasks)
            minutes == SumOver(refs, [r \in refs |-> heap[r].total_work_time])
            done == Cardinality({r \in refs : heap[r].task_status = DONE})
        IN  /\ ret.exc = "none"
            \* in tenths of a point: 10 * (minutes / 6 + 50 * done)
            /\ IsNearest(ret.value, 10 * minutes + 3000 * done, 6)
            /\ (Len(student_tasks) = 1 /\ done = 1 /\ minutes = 60)
                    => ret.value = 600
            /\ student_tasks = <<>> => ret.value = 0

\* a DONE task and a task in progress with work times whose score needs
\* rounding: 20/6 + 45/6 + 50 = 60.83.. gives 60.8
C8_Witness ==
    /\ pc = "done"
    /\ Len(student_tasks) = 2
    /\ heap[1].task_status = DONE /\ heap[1].total_work_time = 20
    /\ heap[1].due_date = DateStr(2024, 2, 29)
    /\ heap[2].task_status = IN_PROGRESS /\ heap[2].total_work_time = 45
    /\ ret.value = 608

\* C9: with a non-zero total weight the grade is
\* round(100 * sum(points/100 * weight) / sum of ALL weights, 2): a task with
\* 0 points adds nothing above and its weight counts below; (50, 80) and
\* (50, 0) give 40.0.
C9_CourseGrade ==
    LET refs == Range(course_tasks)
        all_weight == SumOver(refs, [r \in refs |-> heap[r].weighted_percent])
        earned == SumOver(refs, [r \in refs |->
                    heap[r].points_earned.x * heap[r].weighted_percent])
    IN  (pc = "done" /\ all_weight # 0) =>
            /\ ret.exc = "none"
            \* in hundredths: 100 * (100 * (earned / 100) / all_weight)
            /\ IsNearest(ret.value, 100 * earned, all_weight)
            /\ (/\ Len(course_tasks) = 2
                /\ \A r \in refs : heap[r].weighted_percent = 50
                /\ {heap[q].points_earned.x : q \in refs} = {0, 80})
                    => ret.value = 4000

\* the scenario of the specification: (50, 80) and (50, 0) give 40.0
C9_Witness ==
    /\ pc = "done"
    /\ Len(course_tasks) = 2
    /\ heap[1].weighted_percent = 50 /\ heap[1].points_earned = Float(80)
    /\ heap[2].weighted_percent = 50 /\ heap[2].points_earned = Float(0)
    /\ ret.value = 4000

\* C10: when the weights of the course sum to 0 (no task included) the grade
\* is 0.0 and no division is evaluated.
C10_ZeroWeight ==
    LET refs == Range(course_tasks)
        all_weight == SumOver(refs, [r \in refs |-> heap[r].weighted_percent])
    IN  (pc = "done" /\ all_weight = 0) =>
            /\ ret.exc = "none"
            /\ ret.value = 0
            /\ ret.divisions = 0

\* a course of two graded tasks of weight 0
C10_Witness ==
    /\ pc = "done"
    /\ Len(course_tasks) = 2
    /\ \A r \in Range(course_tasks) :
            heap[r].weighted_percent = 0 /\ heap[r].points_earned.x > 0
    /\ ret.exc = "none"
    /\ ret.value = 0
    /\ ret.divisions = 0

(***************************************************************************)
(* Idempotence of the ranker.                                              *)
(***************************************************************************)
Reverse(s) == [i \in 1 .. Len(s) |-> s[Len(s) + 1 - i]]
\* no two different items carry the same key
NoDuplicateKeys(score_func) ==
    \A x, y \in DOMAIN score_func :
        x # y => ~RatEQ(score_func[x], score_func[y])

\* C12: with a key function without duplicate keys, ranking a sequence that
\* is in descending key order returns it, and ranking the reverse of a
\* descending sequence returns the descending sequence; for every sequence
\* and key function a second ranking returns what the first returned; a
\* sequence of 0 or 1 items is returned unchanged.
C12_Idempotent ==
    /\ (pc = "done" /\ NoDuplicateKeys(args.score_func)
            /\ IsDescending(args.tasks, args.score_func))
        => ret.value = args.tasks
    /\ (pc = "done" /\ NoDuplicateKeys(args.score_func)
            /\ IsDescending(Reverse(args.tasks), args.score_func))
        => ret.value = Reverse(args.tasks)
    /\ pc = "again" => ret.value = args.tasks
    /\ (pc = "done" /\ Len(args.tasks) <= 1) => ret.value = args.tasks

\* a strictly ascending list of three or more items (the reverse of a
\* descending one) is returned reversed
C12_Witness ==
    /\ pc = "done"
    /\ NoDuplicateKeys(args.score_func)
    /\ Len(args.tasks) >= 3
    /\ \A i \in 1 .. Len(args.tasks) - 1 :
            RatGT(args.score_func[args.tasks[i + 1]],
                  args.score_func[args.tasks[i]])
    /\ ret.value = Reverse(args.tasks)

(***************************************************************************)
(* The engine leaves its inputs alone.                                     *)
(***************************************************************************)
\* C13: a call of calculate_daily_score, calculate_course_grade,
\* _merge_sort_tasks or get_smart_recommendation leaves student.tasks
\* (members and order), course.tasks, the list passed to the ranker and
\* every field of every task as they were, and neither creates nor destroys
\* a task.
C13_NoMutation ==
    [][/\ student_tasks' = student_tasks
       /\ course_tasks' = course_tasks
       /\ args'.tasks = args.tasks
       /\ heap' = heap]_vars

\* a recommendation for a student whose first task is DONE, and a direct
\* ranking that reordered its list
C13_Witness ==
    /\ pc = "done"
    /\ Len(student_tasks) = 2
    /\ heap[1].task_status = DONE
    /\ \/ ret.kind = "recommendation" /\ ret.value.task = <<2>>
       \/ ret.kind = "sorted" /\ Len(args.tasks) = 2 /\ ret.value # args.tasks

(***************************************************************************)
(* Properties of the session timer.                                        *)
(***************************************************************************)
\* C14: start_session returns a session whose start time is set (the time of
\* the call) and whose duration_minutes is 0; a stop_session that follows it
\* s >= 0 seconds after the start returns that session with
\* duration_minutes = s / 60 with the fraction dropped, a whole number >= 0
\* (60 seconds give 1).
C14_StartThenStop ==
    [][/\ (ret'.kind = "start_session" /\ ret' # ret) =>
            /\ Len(ret'.value) = 1
            /\ sessions'[ret'.value[1]].start_time = clock
            /\ sessions'[ret'.value[1]].duration_minutes = 0
       /\ (/\ ret.kind = "start_session" /\ ret'.kind = "stop_session"
           /\ clock >= sessions[ret.value[1]].start_time) =>
            LET s == clock - sessions[ret.value[1]].start_time
                d == sessions'[ret.value[1]].duration_minutes
            IN  /\ ret'.value = ret.value
                /\ d >= 0
                /\ 60 * d <= s /\ s < 60 * (d + 1)
                /\ s = 60 => d = 1]_vars

\* a session started at time 0 for task 1 and stopped 60 seconds later
\* with one minute on it
C14_Witness ==
    /\ ret.kind = "stop_session"
    /\ ret.value = <<1>>
    /\ sessions[1].start_time = 0
    /\ sessions[1].session_task = <<1>>
    /\ sessions[1].duration_minutes = 1
    /\ clock = 60
    /\ Len(sessions) = 1

\* C15: once stop_session has set the duration of a session and returned
\* it, no later call of start_session or stop_session on the controller
\* changes the duration_minutes or any other field of that session.
C15_Immutable == [][\A r \in stopped : sessions'[r] = sessions[r]]_vars

(***************************************************************************)
(* Totality of the calculators.                                            *)
(***************************************************************************)
\* C11: on tasks with weights in [0,100], points in [0,100] or unset, any
\* status and a due date that is a date-time, a date string, the sentinel
\* or unset, each of the four calculators returns a value and raises
\* nothing; in particular the course grade of a course holding a task with
\* unset points.
C11_Total == pc = "done" => ret.exc = "none"

\* C16: after any sequence of 'Add New Task' and 'Delete Task', no two tasks
\* of student.tasks have the same task_id.
C16_UniqueIds ==
    \A i, j \in DOMAIN student_tasks :
        heap[student_tasks[i]].task_id = heap[student_tasks[j]].task_id => i = j

\* The typed texts that write a number from 0 to 100.
C17_Accepted ==
    {<<"0">>, <<"-", "0">>, <<".", "0">>, <<"9", "9", ".", "9">>, <<"9", "_", "9", ".", "9">>,
     <<"1", "0", "0">>, <<"1", "e", "2">>, <<"1", "0", "0", ".">>, <<"1", "E", "+", "2">>}
C17_Within(q) == RatGE(q, Rat(0, 1)) /\ RatGE(Rat(100, 1), q)
C17_InRange ==
    \A r \in Range(student_tasks) :
        /\ C17_Within(heap[r].weighted_percent)
        /\ C17_Within(heap[r].points_earned.x)
C17_AddRejects ==
    student_tasks' # student_tasks \/ heap' # heap
    => \A i \in AddInputs :
            i.task_percent_input \notin C17_Accepted
            => ~add_new_task(i.title, i.date_assigned_input, i.due_date_input,
                             i.task_percent_input)
C17_EditKeepsWeight ==
    (\E r \in DOMAIN heap :
        heap'[r].weighted_percent # heap[r].weighted_percent)
    => \A i \in EditInputs :
            i.new_percent \notin C17_Accepted
            => ~edit_task(i.t_id, i.new_due_date, i.new_percent, i.new_points)
C17_EditKeepsPoints ==
    (\E r \in DOMAIN heap :
        heap'[r].points_earned # heap[r].points_earned)
    => \A i \in EditInputs :
            i.new_points \notin C17_Accepted
            => ~edit_task(i.t_id, i.new_due_date, i.new_percent, i.new_points)
\* C17: after any sequence of 'Add New Task' and 'Edit Task Details' with any
\* text typed, every task's weighted_percent and points_earned is within
\* [0, 100]; no add whose weight text is not a number of that range creates
\* a task, and no edit whose weight or points text is not one changes the
\* value of that field.
C17_Percentages ==
    /\ []C17_InRange
    /\ [][C17_AddRejects /\ C17_EditKeepsWeight /\ C17_EditKeepsPoints]_vars
\* Two tasks, the first with weight 99.9 and points 100 after edits, the
\* second as added with weight 0.
C17_Witness ==
    /\ Len(student_tasks) = 2
    /\ heap[student_tasks[1]].weighted_percent = Rat(999, 10)
    /\ heap[student_tasks[1]].points_earned = Float(Rat(100, 1))
    /\ heap[student_tasks[2]].weighted_percent = Rat(0, 1)

(***************************************************************************)
(* Properties of the urgency of two tasks.                                 *)
(***************************************************************************)
C18_Score(r) == ret.value[r].value
\* the instant a due date names, a date string being written YYYY-MM-DD
C18_Due(d) ==
    IF d.type = "datetime" THEN Instant(d)
    ELSE Instant(Datetime(DigitVal(d.s[1]) * 1000 + DigitVal(d.s[2]) * 100
                                + DigitVal(d.s[3]) * 10 + DigitVal(d.s[4]),
                          DigitVal(d.s[6]) * 10 + DigitVal(d.s[7]),
                          DigitVal(d.s[9]) * 10 + DigitVal(d.s[10]), 0))
C18_SameDue(a, b) == C18_Due(heap[a].due_date) = C18_Due(heap[b].due_date)
C18_Earlier(a, b) == C18_Due(heap[a].due_date) < C18_Due(heap[b].due_date)
C18_Returned == pc = "done" /\ \A r \in DOMAIN heap : ret.value[r].exc = "none"
\* the earlier deadline is at least as urgent, and only weight and due date
\* count
C18_DeadlineAndNothingElse ==
    \A a, b \in DOMAIN heap :
        /\ (heap[a].weighted_percent = heap[b].weighted_percent
                /\ heap[a].weighted_percent > 0 /\ C18_Earlier(a, b))
           => RatGE(C18_Score(a), C18_Score(b))
        /\ (heap[a].weighted_percent = heap[b].weighted_percent
                /\ C18_SameDue(a, b))
           => C18_Score(a) = C18_Score(b)
C19_Place(r) == CHOOSE i \in DOMAIN student_tasks : student_tasks[i] = r
\* the due dates drawn that are unset or the sentinel
C19_Undated == {None, Str(<<"t", "b", "d">>)}
\* task top is, of the active tasks with the largest urgency u, the first
C19_FirstOfMostUrgent(top, u) ==
    /\ top \in ActiveRefs
    /\ \A r \in ActiveRefs :
            /\ RatGE(u[top], u[r])
            /\ C19_Place(r) < C19_Place(top) => RatGT(u[top], u[r])
\* C19: when tasks that are not DONE share the largest urgency, the call
\* returns the one of them that comes first in student.tasks; when every
\* active task is undated that is the first active task, with score -1.
C19_TieBreak ==
    (pc = "done" /\ ActiveRefs # {}) =>
        /\ ret.exc = "none"
        /\ Len(ret.value.task) = 1
        /\ C19_FirstOfMostUrgent(ret.value.task[1],
                                 [r \in ActiveRefs |-> Urgency(r)])
        /\ (\A r \in ActiveRefs : heap[r].due_date \in C19_Undated)
                => /\ ret.value.message.score = -10
                   /\ \A r \in ActiveRefs :
                        C19_Place(ret.value.task[1]) <= C19_Place(r)
\* three active tasks, the first less urgent, the other two due the same day
\* with the same weight, one as a date string and one as a datetime: the
\* second is returned
C19_Witness ==
    /\ pc = "done"
    /\ Len(student_tasks) = 3
    /\ ActiveRefs = {1, 2, 3}
    /\ heap[1].due_date = None
    /\ heap[2].due_date = Datetime(2025, 12, 17, 0)
    /\ heap[3].due_date = DateStr(2025, 12, 17)
    /\ heap[2].weighted_percent = 90 /\ heap[3].weighted_percent = 90
    /\ Urgency(2) = Urgency(3)
    /\ ret.value.task = <<2>>
\* every active task undated, the heavier one later: the first is returned
\* with score -1
C19_UndatedWitness ==
    /\ pc = "done"
    /\ ActiveRefs = {2, 3}
    /\ heap[2].due_date = None /\ heap[2].weighted_percent = 40
    /\ heap[3].due_date = Str(<<"t", "b", "d">>)
    /\ heap[3].weighted_percent = 90
    /\ ret.value.task = <<2>>
    /\ ret.value.message.score = -10

\* C20: the days shown in the message are "?" exactly when the heuristic
\* scores the returned task -1 (due date unknown or unparsable), and
\* otherwise the whole days from now to the due date that the heuristic
\* counted before clamping, for a date string and for a datetime alike; the
\* call raises nothing.
C20_DaysShown ==
    (pc = "done" /\ ActiveRefs # {}) =>
        /\ ret.exc = "none"
        /\ ret.value.message.days_remaining.shown = "?"
                <=> RatEQ(Urgency(ret.value.task[1]), Rat(-1, 1))
        /\ ret.value.message.days_remaining.shown # "?"
                => ret.value.message.days_remaining.days
                    = (Instant(DueInstant(heap[ret.value.task[1]].due_date))
                            - Instant(today)) \div TicksPerDay

(***************************************************************************)
(* Properties of the session timer and the work time of the tasks.         *)
(***************************************************************************)
\* total_work_time of the two tasks before any call
C21_InitialWorkTime == <<0, 1>>
\* C21: stop_session on a controller on which no session has been started
\* returns None and leaves active_session, start_timestamp, current_task
\* and the total_work_time of every task as they were.
C21_StopBeforeStart ==
    (ret.kind = "stop_session" /\ sessions = <<>>) =>
        /\ ret.value = <<>>
        /\ controller.active_session = <<>>
        /\ controller.start_timestamp = <<>>
        /\ controller.current_task = <<>>
        /\ \A r \in DOMAIN heap :
                heap[r].total_work_time = C21_InitialWorkTime[r]
\* stop_session has returned a minute after the controller was made, no
\* session having been started
C21_Witness ==
    /\ ret.kind = "stop_session"
    /\ ret.value = <<>>
    /\ sessions = <<>>
    /\ clock = 60

\* C22: stop_session on an active session started with a task adds to that
\* task's total_work_time the duration_minutes it records on the session and
\* changes no other task; on one started without a task it changes no task;
\* start_session changes no task.
C22_WorkTimeFrame ==
    [][/\ StartSession => heap' = heap
       /\ (StopSession /\ controller.active_session # <<>>) =>
            \A r \in DOMAIN heap :
                IF sessions[controller.active_session[1]].session_task = <<r>>
                THEN heap'[r] =
                        [heap[r] EXCEPT !.total_work_time = @ +
                            sessions'[controller.active_session[1]].duration_minutes]
                ELSE heap'[r] = heap[r]]_vars
\* the session of task 2 stopped after a minute: task 2 has its minute more,
\* task 1 has what it had
C22_Witness ==
    /\ ret.kind = "stop_session"
    /\ ret.value = <<1>>
    /\ Len(sessions) = 1
    /\ sessions[1].session_task = <<2>>
    /\ sessions[1].duration_minutes = 1
    /\ heap[2].total_work_time = 2
    /\ heap[1].total_work_time = 0

RECURSIVE C23_Credited(_, _)
\* the sum of duration_minutes of the first n sessions started with task r
C23_Credited(r, n) ==
    IF n = 0 THEN 0
    ELSE C23_Credited(r, n - 1)
            + IF sessions[n].session_task = <<r>>
              THEN sessions[n].duration_minutes ELSE 0
\* C23: after any sequence of start_session and stop_session on one
\* controller, the total_work_time of each task is what it was at first plus
\* the sum of the duration_minutes of the sessions started with that task.
C23_CreditedOnce ==
    \A r \in DOMAIN heap :
        heap[r].total_work_time
            = C21_InitialWorkTime[r] + C23_Credited(r, Len(sessions))
====
